---- MODULE Spec2Model ----
(***************************************************************************)
(* The CueInstance API type of cue-flux-controller                         *)
(* (api/v1alpha1/cueinstance_types.go): the duration getters of the Spec   *)
(* and the helpers that write the Status (Ready condition, revisions,      *)
(* inventory, observed generation).                                        *)
(*                                                                         *)
(* Go strings are modelled as sequences of one-character strings, so that  *)
(* len() and slicing are Len and SubSeq.  A Go pointer is Nil (<<>>) or a  *)
(* one-element sequence holding the value pointed to.  time.Duration is    *)
(* counted in milliseconds (TLC integers are 32 bits wide; the getters     *)
(* only subtract and compare, far from the int64 limits).                  *)
(***************************************************************************)
EXTENDS Integers, Sequences, FiniteSets, TLC

VARIABLES
    k,      \* the CueInstance held by the caller (Generation, Spec, Status)
    call,   \* the last call: its name and arguments (call.k is the argument k,
            \* as it was when the call was made)
    ret     \* the value returned by the last getter call

vars == <<k, call, ret>>

----------------------------------------------------------------------------
(* Program constants *)

MaxConditionMessageLength == 20000

\* time.Second, in milliseconds
Second == 1000

ReadyCondition == "Ready"
ProgressingReason == "Progressing"
ConditionTrue == "True"
ConditionFalse == "False"
ConditionUnknown == "Unknown"

----------------------------------------------------------------------------
(* Bounds of the model *)

\* messages are up to MaxConditionMessageLength + MaxOver characters long
MaxOver == 4
\* metadata.generation runs from 1 to MaxGeneration
MaxGeneration == 2
\* durations lie within MaxDelta milliseconds of a multiple of 30 seconds
MaxDelta == 1

----------------------------------------------------------------------------
(* Pointers *)

Nil == <<>>
Ptr(v) == <<v>>
Deref(p) == p[1]

----------------------------------------------------------------------------
(* Inputs *)

\* the i-th character of the generated messages: dots and letters alternate,
\* so that a message's own text can look like the truncation marker
CharAt(i) == IF i % 2 = 0 THEN "." ELSE "e"

Message(n) == [i \in 1..n |-> CharAt(i)]

MessageLengths ==
    {0, MaxConditionMessageLength,
     MaxConditionMessageLength + 1, MaxConditionMessageLength + MaxOver}

\* messages around the length cap
Messages == {Message(n) : n \in MessageLengths}

\* the message of an ordinary cycle, far below the cap
CycleMessages == {<<"o", "k">>}

Revisions == {"", "main/1", "main/2"}

Reasons == {"ReconciliationFailed", "ReconciliationSucceeded"}

Inventories ==
    {Nil, Ptr([Entries |-> <<"A", "B", "C">>]), Ptr([Entries |-> <<"B", "C">>])}

\* the arguments the reconciler passes, cycle after cycle
CycleInputs ==
    [messages |-> CycleMessages, revisions |-> Revisions,
     reasons |-> Reasons, inventories |-> Inventories]

\* the arguments of the calls whose message is around the length cap
MessageInputs ==
    [messages |-> Messages, revisions |-> {"main/1"},
     reasons |-> {"ReconciliationFailed"}, inventories |-> {Nil}]

Durations ==
    {t * 30 * Second + d : t \in 0..3, d \in (-MaxDelta)..MaxDelta}

OptionalDurations == {Nil} \cup {Ptr(d) : d \in Durations}

----------------------------------------------------------------------------
(* Spec getters *)

\* a GetTimeout whose default is the Interval itself
GetTimeoutDefaultInterval(in) ==
    LET duration == IF in.Spec.Timeout # Nil
                    THEN Deref(in.Spec.Timeout)
                    ELSE in.Spec.Interval
    IN  IF duration < 30 * Second THEN 30 * Second ELSE duration

\* a GetTimeout that floors the default only
GetTimeoutFloorDefaultOnly(in) ==
    LET duration == in.Spec.Interval - 30 * Second
    IN  IF in.Spec.Timeout # Nil
        THEN Deref(in.Spec.Timeout)
        ELSE IF duration < 30 * Second THEN 30 * Second ELSE duration

GetTimeout(in) ==
    LET duration0 == in.Spec.Interval - 30 * Second
        duration == IF in.Spec.Timeout # Nil
                    THEN Deref(in.Spec.Timeout)
                    ELSE duration0
    IN  IF duration < 30 * Second THEN 30 * Second ELSE duration

\* a GetRetryInterval that ignores Spec.RetryInterval
GetRetryIntervalIgnored(in) == in.Spec.Interval

GetRetryInterval(in) ==
    IF in.Spec.RetryInterval # Nil
    THEN Deref(in.Spec.RetryInterval)
    ELSE in.Spec.Interval

GetStatusConditions(in) == in.Status.Conditions

----------------------------------------------------------------------------
(* Status helpers *)

\* a trimString that makes the result, marker included, limit characters long
trimStringCapTotal(str, limit) ==
    IF Len(str) <= limit
    THEN str
    ELSE SubSeq(str, 1, limit - 3) \o <<".", ".", ".">>

trimString(str, limit) ==
    IF Len(str) <= limit
    THEN str
    ELSE SubSeq(str, 1, limit) \o <<".", ".", ".">>

\* the index of the first condition of the given type, 0 when there is none
FindStatusCondition(conditions, type) ==
    IF \E i \in 1..Len(conditions) : conditions[i].Type = type
    THEN CHOOSE i \in 1..Len(conditions) :
            /\ conditions[i].Type = type
            /\ \A j \in 1..(i - 1) : conditions[j].Type # type
    ELSE 0

\* meta.SetResourceCondition: the condition of that type is overwritten, or
\* appended when the instance has none (the transition time is left out)
SetResourceCondition(obj, condition, status, reason, message) ==
    LET conditions == GetStatusConditions(obj)
        newCondition == [Type |-> condition, Status |-> status,
                         Reason |-> reason, Message |-> message]
        i == FindStatusCondition(conditions, condition)
    IN  [obj EXCEPT !.Status.Conditions =
            IF i = 0 THEN Append(conditions, newCondition)
                     ELSE [conditions EXCEPT ![i] = newCondition]]

CueInstanceProgressing(k0, message) ==
    SetResourceCondition(k0, ReadyCondition, ConditionUnknown, ProgressingReason, message)

\* a SetCueInstanceReadiness that leaves ObservedGeneration alone
SetCueInstanceReadinessNoGeneration(k0, status, reason, message, revision) ==
    LET k1 == SetResourceCondition(k0, ReadyCondition, status, reason,
                                   trimString(message, MaxConditionMessageLength))
    IN  [k1 EXCEPT !.Status.LastAttemptedRevision = revision]

SetCueInstanceReadiness(k0, status, reason, message, revision) ==
    LET k1 == SetResourceCondition(k0, ReadyCondition, status, reason,
                                   trimString(message, MaxConditionMessageLength))
        k2 == [k1 EXCEPT !.Status.ObservedGeneration = k1.Generation]
    IN  [k2 EXCEPT !.Status.LastAttemptedRevision = revision]

\* a CueInstanceNotReady that also records the revision as applied
CueInstanceNotReadyApplied(k0, revision, reason, message) ==
    LET k1 == SetCueInstanceReadiness(k0, ConditionFalse, reason,
                  trimString(message, MaxConditionMessageLength), revision)
    IN  IF revision # ""
        THEN [k1 EXCEPT !.Status.LastAttemptedRevision = revision,
                        !.Status.LastAppliedRevision = revision]
        ELSE k1

CueInstanceNotReady(k0, revision, reason, message) ==
    LET k1 == SetCueInstanceReadiness(k0, ConditionFalse, reason,
                  trimString(message, MaxConditionMessageLength), revision)
    IN  IF revision # ""
        THEN [k1 EXCEPT !.Status.LastAttemptedRevision = revision]
        ELSE k1

\* a CueInstanceNotReadyInventory that keeps the inventory of its argument
CueInstanceNotReadyInventoryKept(k0, inventory, revision, reason, message) ==
    LET k1 == SetCueInstanceReadiness(k0, ConditionFalse, reason,
                  trimString(message, MaxConditionMessageLength), revision)
    IN  IF revision # ""
        THEN [k1 EXCEPT !.Status.LastAttemptedRevision = revision]
        ELSE k1

CueInstanceNotReadyInventory(k0, inventory, revision, reason, message) ==
    LET k1 == SetCueInstanceReadiness(k0, ConditionFalse, reason,
                  trimString(message, MaxConditionMessageLength), revision)
        k2 == IF revision # ""
              THEN [k1 EXCEPT !.Status.LastAttemptedRevision = revision]
              ELSE k1
    IN  [k2 EXCEPT !.Status.Inventory = inventory]

\* a CueInstanceReadyInventory that records only a non-empty revision as applied
CueInstanceReadyInventoryGuarded(k0, inventory, revision, reason, message) ==
    LET k1 == SetCueInstanceReadiness(k0, ConditionTrue, reason,
                  trimString(message, MaxConditionMessageLength), revision)
        k2 == [k1 EXCEPT !.Status.Inventory = inventory]
    IN  IF revision # ""
        THEN [k2 EXCEPT !.Status.LastAppliedRevision = revision]
        ELSE k2

CueInstanceReadyInventory(k0, inventory, revision, reason, message) ==
    LET k1 == SetCueInstanceReadiness(k0, ConditionTrue, reason,
                  trimString(message, MaxConditionMessageLength), revision)
        k2 == [k1 EXCEPT !.Status.Inventory = inventory]
    IN  [k2 EXCEPT !.Status.LastAppliedRevision = revision]

----------------------------------------------------------------------------
(* State *)

CueInstanceSpec(interval, retryInterval, timeout) ==
    [Interval |-> interval, RetryInterval |-> retryInterval, Timeout |-> timeout]

\* the zero value of CueInstanceStatus
CueInstanceStatus ==
    [ObservedGeneration |-> 0,
     Conditions |-> <<>>,
     LastAppliedRevision |-> "",
     LastAttemptedRevision |-> "",
     Inventory |-> Nil]

CueInstance(spec) ==
    [Generation |-> 1, Spec |-> spec, Status |-> CueInstanceStatus]

NoCall == [op |-> "none"]

\* a new instance, reconciled every five minutes, whose status is empty
Init ==
    /\ k = CueInstance(CueInstanceSpec(300 * Second, Nil, Nil))
    /\ call = NoCall
    /\ ret = Nil

\* a new instance with any Spec durations
InitDurations ==
    /\ \E interval \in Durations, retryInterval \in OptionalDurations,
          timeout \in OptionalDurations :
            k = CueInstance(CueInstanceSpec(interval, retryInterval, timeout))
    /\ call = NoCall
    /\ ret = Nil

----------------------------------------------------------------------------
(* Operations: the getters *)

CallGetTimeout ==
    /\ call' = [op |-> "GetTimeout", k |-> k]
    /\ ret' = Ptr(GetTimeout(k))
    /\ UNCHANGED k

CallGetRetryInterval ==
    /\ call' = [op |-> "GetRetryInterval", k |-> k]
    /\ ret' = Ptr(GetRetryInterval(k))
    /\ UNCHANGED k

----------------------------------------------------------------------------
(* Operations: the status helpers.  Each takes the instance by value and  *)
(* returns the changed copy, which the caller keeps as its instance.  The *)
(* parameter of an action holds the sets its arguments are drawn from.    *)

\* the author edits the Spec: the API server increments metadata.generation
UpdateSpec ==
    /\ k.Generation < MaxGeneration
    /\ k' = [k EXCEPT !.Generation = @ + 1]
    /\ call' = NoCall
    /\ UNCHANGED ret

Progressing(in) ==
    \E message \in in.messages :
        /\ call' = [op |-> "CueInstanceProgressing", k |-> k, message |-> message]
        /\ k' = CueInstanceProgressing(k, message)
        /\ UNCHANGED ret

SetReadiness(in) ==
    \E status \in {ConditionTrue, ConditionFalse, ConditionUnknown},
       reason \in in.reasons, message \in in.messages, revision \in in.revisions :
        /\ call' = [op |-> "SetCueInstanceReadiness", k |-> k, status |-> status,
                    reason |-> reason, message |-> message, revision |-> revision]
        /\ k' = SetCueInstanceReadiness(k, status, reason, message, revision)
        /\ UNCHANGED ret

NotReady(in) ==
    \E revision \in in.revisions, reason \in in.reasons, message \in in.messages :
        /\ call' = [op |-> "CueInstanceNotReady", k |-> k, revision |-> revision,
                    reason |-> reason, message |-> message]
        /\ k' = CueInstanceNotReady(k, revision, reason, message)
        /\ UNCHANGED ret

NotReadyInventory(in) ==
    \E inventory \in in.inventories, revision \in in.revisions,
       reason \in in.reasons, message \in in.messages :
        /\ call' = [op |-> "CueInstanceNotReadyInventory", k |-> k,
                    inventory |-> inventory, revision |-> revision,
                    reason |-> reason, message |-> message]
        /\ k' = CueInstanceNotReadyInventory(k, inventory, revision, reason, message)
        /\ UNCHANGED ret

ReadyInventory(in) ==
    \E inventory \in in.inventories, revision \in in.revisions,
       reason \in in.reasons, message \in in.messages :
        /\ call' = [op |-> "CueInstanceReadyInventory", k |-> k,
                    inventory |-> inventory, revision |-> revision,
                    reason |-> reason, message |-> message]
        /\ k' = CueInstanceReadyInventory(k, inventory, revision, reason, message)
        /\ UNCHANGED ret

----------------------------------------------------------------------------
(* Specifications *)

\* the reconciler's use of the status helpers, cycle after cycle
Next ==
    \/ UpdateSpec
    \/ Progressing(CycleInputs)
    \/ NotReady(CycleInputs)
    \/ NotReadyInventory(CycleInputs)
    \/ ReadyInventory(CycleInputs)

Spec == Init /\ [][Next]_vars

\* every helper that stores a message, with messages around the length cap
NextMessages ==
    \/ Progressing(MessageInputs)
    \/ SetReadiness(MessageInputs)
    \/ NotReady(MessageInputs)
    \/ NotReadyInventory(MessageInputs)
    \/ ReadyInventory(MessageInputs)

SpecMessages == Init /\ [][NextMessages]_vars

\* the getters, on every Spec of InitDurations
NextDurations ==
    \/ CallGetTimeout
    \/ CallGetRetryInterval

SpecDurations == InitDurations /\ [][NextDurations]_vars

----------------------------------------------------------------------------
(* Vocabulary of the properties *)

HasReady(in) == FindStatusCondition(in.Status.Conditions, ReadyCondition) # 0

\* the Ready condition of an instance that has one
ReadyOf(in) ==
    in.Status.Conditions[FindStatusCondition(in.Status.Conditions, ReadyCondition)]

\* what the length cap makes of a message
Capped(message) ==
    IF Len(message) <= MaxConditionMessageLength
    THEN message
    ELSE SubSeq(message, 1, MaxConditionMessageLength) \o <<".", ".", ".">>

NotReadyOps == {"CueInstanceNotReady", "CueInstanceNotReadyInventory"}

AttemptOps == NotReadyOps \cup {"CueInstanceReadyInventory"}

StoringOps == AttemptOps \cup {"SetCueInstanceReadiness"}

----------------------------------------------------------------------------
(* Properties of the getters, under SpecDurations *)

C2_TimeoutExact ==
    (call.op = "GetTimeout" /\ call.k.Spec.Timeout # Nil) =>
        Deref(ret) = Deref(call.k.Spec.Timeout)

\* C2, amended: when Spec.Timeout is set, GetTimeout returns Spec.Timeout if
\* it is at least 30 seconds and 30 seconds otherwise, whatever the Interval.
C2_TimeoutFloored ==
    (call.op = "GetTimeout" /\ call.k.Spec.Timeout # Nil) =>
        /\ Deref(call.k.Spec.Timeout) >= 30 * Second
            => Deref(ret) = Deref(call.k.Spec.Timeout)
        /\ Deref(call.k.Spec.Timeout) < 30 * Second
            => Deref(ret) = 30 * Second

\* C2's case: a set Timeout below the floor, under an Interval whose own
\* default would be above it
C2_Witness ==
    /\ call.op = "GetTimeout"
    /\ call.k.Spec.Timeout # Nil
    /\ Deref(call.k.Spec.Timeout) < 30 * Second
    /\ call.k.Spec.Interval - 30 * Second > 30 * Second
    /\ Deref(ret) = 30 * Second

\* C8: GetRetryInterval returns Spec.RetryInterval when it is set and
\* Spec.Interval when it is not.
C8_RetryInterval ==
    call.op = "GetRetryInterval" =>
        /\ call.k.Spec.RetryInterval # Nil
            => Deref(ret) = Deref(call.k.Spec.RetryInterval)
        /\ call.k.Spec.RetryInterval = Nil
            => Deref(ret) = call.k.Spec.Interval

\* C8's case: a set RetryInterval that differs from the Interval
C8_Witness ==
    /\ call.op = "GetRetryInterval"
    /\ call.k.Spec.RetryInterval # Nil
    /\ Deref(call.k.Spec.RetryInterval) # call.k.Spec.Interval
    /\ Deref(ret) = Deref(call.k.Spec.RetryInterval)

----------------------------------------------------------------------------
(* Properties of the status helpers, under Spec *)

\* C3: after CueInstanceNotReadyInventory(k, inv, revision, reason, message)
\* the returned instance has Status.Inventory = inv, its Ready condition is
\* False, and Status.LastAppliedRevision is that of k.
C3_PartialInventory ==
    call.op = "CueInstanceNotReadyInventory" =>
        /\ k.Status.Inventory = call.inventory
        /\ HasReady(k)
        /\ ReadyOf(k).Status = ConditionFalse
        /\ k.Status.LastAppliedRevision = call.k.Status.LastAppliedRevision

\* C3's case: the partial inventory {B, C} replaces the previous {A, B, C}
\* of an instance that had applied another revision
C3_Witness ==
    /\ call.op = "CueInstanceNotReadyInventory"
    /\ call.k.Status.Inventory = Ptr([Entries |-> <<"A", "B", "C">>])
    /\ call.inventory = Ptr([Entries |-> <<"B", "C">>])
    /\ call.k.Status.LastAppliedRevision = "main/1"
    /\ call.revision = "main/2"
    /\ k.Status.Inventory = call.inventory

\* C4, as claimed: among the status helpers only CueInstanceReadyInventory
\* changes LastAppliedRevision or Inventory; CueInstanceNotReady,
\* CueInstanceNotReadyInventory and CueInstanceProgressing return both as
\* they were in the argument.
C4_OnlyReadyCommits ==
    call.op \in NotReadyOps \cup {"CueInstanceProgressing"} =>
        /\ k.Status.LastAppliedRevision = call.k.Status.LastAppliedRevision
        /\ k.Status.Inventory = call.k.Status.Inventory

\* C4, amended: only CueInstanceReadyInventory changes LastAppliedRevision;
\* Inventory is changed by CueInstanceReadyInventory and by
\* CueInstanceNotReadyInventory, which stores the inventory it is given;
\* CueInstanceNotReady and CueInstanceProgressing return both unchanged.
C4_CommitFrame ==
    /\ call.op \in NotReadyOps \cup {"CueInstanceProgressing"} =>
            k.Status.LastAppliedRevision = call.k.Status.LastAppliedRevision
    /\ call.op \in {"CueInstanceNotReady", "CueInstanceProgressing"} =>
            k.Status.Inventory = call.k.Status.Inventory
    /\ call.op = "CueInstanceNotReadyInventory" =>
            k.Status.Inventory = call.inventory

\* C4's case: CueInstanceNotReady with a new revision on an instance that
\* holds an applied revision and an inventory
C4_Witness ==
    /\ call.op = "CueInstanceNotReady"
    /\ call.k.Status.LastAppliedRevision = "main/1"
    /\ call.k.Status.Inventory # Nil
    /\ call.revision = "main/2"
    /\ k.Status.LastAppliedRevision = "main/1"
    /\ k.Status.Inventory = call.k.Status.Inventory

\* C5, as claimed: after CueInstanceNotReady or CueInstanceNotReadyInventory,
\* LastAttemptedRevision is the revision when that is non-empty, and the
\* LastAttemptedRevision of k when the revision is empty.
C5_AttemptedRevision ==
    call.op \in NotReadyOps =>
        /\ call.revision # ""
            => k.Status.LastAttemptedRevision = call.revision
        /\ call.revision = ""
            => k.Status.LastAttemptedRevision = call.k.Status.LastAttemptedRevision

\* C7: after CueInstanceNotReady, CueInstanceNotReadyInventory and
\* CueInstanceReadyInventory, Status.ObservedGeneration is the metadata
\* Generation, whatever it was before.
C7_ObservedGeneration ==
    call.op \in AttemptOps => k.Status.ObservedGeneration = k.Generation

\* C7's case: a failed attempt on an instance whose Spec was edited after
\* its last attempt
C7_Witness ==
    /\ call.op = "CueInstanceNotReady"
    /\ call.k.Status.ObservedGeneration > 0
    /\ call.k.Status.ObservedGeneration < call.k.Generation
    /\ k.Status.ObservedGeneration = k.Generation

\* C10: in every reachable state whose Ready condition is True,
\* LastAppliedRevision equals LastAttemptedRevision.
C10_ReadyApplied ==
    (HasReady(k) /\ ReadyOf(k).Status = ConditionTrue) =>
        k.Status.LastAppliedRevision = k.Status.LastAttemptedRevision

\* C10's case: Ready became True with the empty revision, on an instance
\* that had applied one revision and then failed on another
C10_Witness ==
    /\ call.op = "CueInstanceReadyInventory"
    /\ call.revision = ""
    /\ call.k.Status.LastAppliedRevision = "main/1"
    /\ call.k.Status.LastAttemptedRevision = "main/2"
    /\ HasReady(k)
    /\ ReadyOf(k).Status = ConditionTrue

----------------------------------------------------------------------------
(* Properties of the stored message, under SpecMessages *)

\* C6: after SetCueInstanceReadiness, CueInstanceNotReady,
\* CueInstanceNotReadyInventory and CueInstanceReadyInventory the instance
\* has a Ready condition, whose message is the input when that is at most
\* MaxConditionMessageLength long, and otherwise its first
\* MaxConditionMessageLength characters followed by "...".
C6_StoredMessage ==
    call.op \in StoringOps =>
        /\ HasReady(k)
        /\ ReadyOf(k).Message = Capped(call.message)

\* C6's case: a helper that trims twice, given a message over the cap
C6_Witness ==
    /\ call.op = "CueInstanceNotReady"
    /\ Len(call.message) = MaxConditionMessageLength + MaxOver
    /\ HasReady(k)
    /\ Len(ReadyOf(k).Message) = MaxConditionMessageLength + 3

\* C9: after any sequence of calls to the status helpers the stored Ready
\* message is at most MaxConditionMessageLength + 3 characters long.
C9_MessageCapped ==
    HasReady(k) => Len(ReadyOf(k).Message) <= MaxConditionMessageLength + 3

====
